---- MODULE Spec2Model ----
(***************************************************************************)
(* Model of butler's BlockService (src/butler/block_service/               *)
(* block_service.py) and of the life cycle in src/butler/base.py.          *)
(*                                                                         *)
(* Threads: NumHandlers request-handler threads (ThreadingTCPServer), the  *)
(* background sweeper thread (check_progress_list) and the main thread     *)
(* (serve_forever / KeyboardInterrupt).  A `with self.lock:` section that  *)
(* does not call shutdown is one atomic action, guarded by the lock being  *)
(* free; the reads the code makes outside the lock (lines 134, 147, 113,   *)
(* 165 and serialize_status from the interrupt path) are separate steps.   *)
(* Blocks are opaque values (each stands for one offset triple).           *)
(***************************************************************************)
EXTENDS Naturals, Integers, Sequences, FiniteSets, TLC

\* ---------------------------------------------------------------- bounds
MaxBlocks == 2
NumHandlers == 2
MaxRetries == 1
MaxTime == 3

\* time_limit of the constructor, in clock ticks
TimeLimit == 1

Blocks == 1..MaxBlocks
Handlers == 1..NumHandlers

\* what a call of process_request produced: a block (a list), None, a bool,
\* or the IndexError that ended it; Pending while the call is running
RetBlock(b) == [kind |-> "block", val |-> b]
RetNone == [kind |-> "None", val |-> 0]
RetBool(ok) == [kind |-> "bool", val |-> IF ok THEN 1 ELSE 0]
IndexError == [kind |-> "IndexError", val |-> 0]
Pending == [kind |-> "pending", val |-> 0]

Accepted == RetBool(TRUE)
Rejected == RetBool(FALSE)

\* BlockRequestHandler.format_response: the line written to the worker
format_response(response) ==
    CASE response.kind = "bool" -> (IF response.val = 1 THEN "0" ELSE "1")
      [] response.kind = "block" -> ToString(response.val)
      [] response.kind = "None" -> "stop"
      [] OTHER -> "RuntimeError"

VARIABLES
    block_file,         \* the loaded input list (never changes)
    num_retries,        \* constructor argument
    block_queue,        \* deque; its right end is the end of the sequence
    in_progress,
    time_stamps,
    processed_list,
    failed_blocks,
    try_counter,
    server_is_running,
    lock,               \* 0 = free, h = held by handler h
    pc,                 \* position of each handler thread
    req,                \* formatted request: <<>> (None) or <<b>>, the block to confirm
    result,             \* value returned by the handler's last call
    bg_pc,              \* position of the sweeper thread
    main_pc,            \* position of the main thread
    out_failed,         \* <prefix>failed_blocks.json, <<>> = not written
    out_processed,      \* <prefix>processed_blocks.json
    out_inprogress,     \* <prefix>inprogress_blocks.json
    written,            \* the status files that have been opened for writing
    line,               \* the request line on the wire (wire specification)
    now,                \* time.time()
    swept,              \* history: blocks the sweeper has moved to failed
    confirmed,          \* history: blocks with an accepted confirm
    pending_at_interrupt, \* history: pending when the interrupt arrived
    shutdown_log,       \* history: the steps of the graceful shutdown, in order
    dispatch_count,     \* history: per block, its moves from pending to in_progress
    refills             \* history: the calls of repopulate_queue

vars == <<block_file, num_retries, block_queue, in_progress, time_stamps,
          processed_list, failed_blocks, try_counter, server_is_running,
          lock, pc, req, result, bg_pc, main_pc, out_failed, out_processed,
          out_inprogress, written, line, now, swept, confirmed,
          pending_at_interrupt, shutdown_log, dispatch_count, refills>>

inventory == <<block_queue, in_progress, time_stamps, processed_list,
               failed_blocks, try_counter>>

files == <<out_failed, out_processed, out_inprogress, written>>

counters == <<dispatch_count, refills>>

history == <<swept, confirmed, pending_at_interrupt, shutdown_log>>

config == <<block_file, num_retries, line>>

\* ---------------------------------------------------------------- helpers
Range(s) == {s[i] : i \in DOMAIN s}

Count(s, b) == Cardinality({i \in DOMAIN s : s[i] = b})

Last(s) == s[Len(s)]

Front(s) == SubSeq(s, 1, Len(s) - 1)

\* reversed(...)
Reverse(s) == [i \in 1..Len(s) |-> s[Len(s) + 1 - i]]

\* del s[i] (1-based)
RemoveAt(s, i) == SubSeq(s, 1, i - 1) \o SubSeq(s, i + 1, Len(s))

\* list.index(b): the first position of b; only used when b occurs in s
Index(s, b) == CHOOSE i \in DOMAIN s : s[i] = b /\ \A j \in 1..(i - 1) : s[j] # b

\* json.load of the block file: the lists 1..n, n <= MaxBlocks (no duplicates)
BlockFiles == {[i \in 1..n |-> i] : n \in 0..MaxBlocks}


\* ---------------------------------------------------------------- inventory steps
\* block_queue.pop(); in_progress.append(b); time_stamps.append(time.time())
\* <<queue, in_progress, time_stamps, returned block>>
Dispatch(q, ip, ts, t) ==
    <<Front(q), Append(ip, Last(q)), Append(ts, t), Last(q)>>

\* one more pop of block b into in_progress
Dispatched(dc, b) == [dc EXCEPT ![b] = dc[b] + 1]

\* variant: the failed list is put in front of the queue without reversal
ExtendLeft_NoReverse(q, f) == f \o q

\* deque.extendleft(failed): the elements are pushed on the left one by one
ExtendLeft(q, f) == Reverse(f) \o q

\* variant: the refill leaves failed_blocks as it was
ClearFailed_Keep(f) == f

\* self.failed_blocks = [] after the refill
ClearFailed(f) == <<>>

\* self.try_counter += 1
NextTry(tc) == tc + 1

\* variant: the retry condition ignores the counter
CanRetry_Always(tc, nr, f) == f # <<>>

\* variant: the retry condition compares with <=
CanRetry_Le(tc, nr, f) == tc <= nr /\ f # <<>>

\* the retry condition of request_block
CanRetry(tc, nr, f) == tc < nr /\ f # <<>>

\* repopulate_queue: <<queue, in_progress, time_stamps, returned block, failed>>
repopulate_queue(q, ip, ts, f, t) ==
    LET d == Dispatch(ExtendLeft(q, f), ip, ts, t)
    IN  <<d[1], d[2], d[3], d[4], ClearFailed(f)>>

\* variant: the comparison is >=
Expired_Ge(stamp, t) == t - stamp >= TimeLimit

\* now - time_stamp > self.time_limit
Expired(stamp, t) == t - stamp > TimeLimit

\* the loop of check_progress_list over the expired indices, highest first:
\* <<in_progress, time_stamps, failed_blocks>>
RECURSIVE SweepFrom(_, _, _, _, _)
SweepFrom(i, ip, ts, f, t) ==
    IF i = 0 THEN <<ip, ts, f>>
    ELSE IF Expired(ts[i], t)
         THEN SweepFrom(i - 1, RemoveAt(ip, i), RemoveAt(ts, i), Append(f, ip[i]), t)
         ELSE SweepFrom(i - 1, ip, ts, f, t)

\* the blocks a sweep at time t moves
ExpiredBlocks(ip, ts, t) == {ip[i] : i \in {j \in DOMAIN ts : Expired(ts[j], t)}}

\* in_progress.index(b) succeeds
Found(ip, b) == b \in Range(ip)

\* variant: the confirmed block is not appended to processed_list
ConfirmFound_Lost(ip, ts, pl, b) ==
    LET index == Index(ip, b)
    IN  <<RemoveAt(ip, index), RemoveAt(ts, index), pl>>

\* variant: the first time stamp is deleted instead of the one at index
ConfirmFound_FirstStamp(ip, ts, pl, b) ==
    LET index == Index(ip, b)
    IN  <<RemoveAt(ip, index), RemoveAt(ts, 1), Append(pl, b)>>

\* variant: the block stays in in_progress after the confirm
ConfirmFound_Stay(ip, ts, pl, b) == <<ip, ts, Append(pl, b)>>

\* the locked body of confirm_block on success:
\* <<in_progress, time_stamps, processed_list>>
ConfirmFound(ip, ts, pl, b) ==
    LET index == Index(ip, b)
    IN  <<RemoveAt(ip, index), RemoveAt(ts, index), Append(pl, b)>>

\* json.dump of a list under `if list:`; old is the file's previous content
Dump(list, old) == IF list # <<>> THEN list ELSE old

\* variant: the file is opened whether or not the list is empty
ShouldDump_Always(list) == TRUE

\* `if self.failed_blocks:` and its two siblings in serialize_status
ShouldDump(list) == list # <<>>

\* the files opened so far, after the `if list: open(name, 'w')` for one list
Opened(list, name, w) == IF ShouldDump(list) THEN w \cup {name} ELSE w

\* variant: the file's list is not reversed
LoadQueue_NoReverse(bf) == bf

\* deque(reversed(json.load(f)))
LoadQueue(bf) == Reverse(bf)

\* ---------------------------------------------------------------- Init
Init ==
    /\ block_file \in BlockFiles
    /\ num_retries \in 0..MaxRetries
    /\ block_queue = LoadQueue(block_file)
    /\ in_progress = <<>>
    /\ time_stamps = <<>>
    /\ processed_list = <<>>
    /\ failed_blocks = <<>>
    /\ try_counter = 0
    /\ server_is_running = TRUE
    /\ lock = 0
    /\ pc = [h \in Handlers |-> "idle"]
    /\ req = [h \in Handlers |-> <<>>]
    /\ result = [h \in Handlers |-> Pending]
    /\ bg_pc = "l113"
    /\ main_pc = "serving"
    /\ out_failed = <<>>
    /\ out_processed = <<>>
    /\ out_inprogress = <<>>
    /\ written = {}
    /\ line = <<>>
    /\ now = 0
    /\ swept = {}
    /\ confirmed = {}
    /\ pending_at_interrupt = {}
    /\ shutdown_log = <<>>
    /\ dispatch_count = [b \in Blocks |-> 0]
    /\ refills = 0

\* ---------------------------------------------------------------- handlers
\* handle(): a one-token line was read, process_request calls request_block
handle_request_block(h) ==
    /\ main_pc = "serving"
    /\ pc[h] = "idle"
    /\ pc' = [pc EXCEPT ![h] = "l134"]
    /\ req' = [req EXCEPT ![h] = <<>>]
    /\ result' = [result EXCEPT ![h] = Pending]
    /\ UNCHANGED <<config, counters, inventory, server_is_running, lock, bg_pc, main_pc,
                   files, now, history>>

\* handle(): a three-token line was read, process_request calls confirm_block
handle_confirm_block(h, b) ==
    /\ main_pc = "serving"
    /\ pc[h] = "idle"
    /\ pc' = [pc EXCEPT ![h] = "l179"]
    /\ req' = [req EXCEPT ![h] = <<b>>]
    /\ result' = [result EXCEPT ![h] = Pending]
    /\ UNCHANGED <<config, counters, inventory, server_is_running, lock, bg_pc, main_pc,
                   files, now, history>>

\* variant: the else branch is entered with the lock taken, the drain wait
\* polls while holding it
request_block_test_HoldLock(h) ==
    /\ pc[h] = "l134"
    /\ IF Len(block_queue) > 0
       THEN /\ pc' = [pc EXCEPT ![h] = "l135"]
            /\ UNCHANGED lock
       ELSE /\ lock = 0
            /\ pc' = [pc EXCEPT ![h] = "l147"]
            /\ lock' = h
    /\ UNCHANGED <<config, counters, inventory, server_is_running, req, result,
                   bg_pc, main_pc, files, now, history>>

\* line 134: `if len(self.block_queue) > 0`, read without the lock
request_block_test(h) ==
    /\ pc[h] = "l134"
    /\ pc' = [pc EXCEPT ![h] = IF Len(block_queue) > 0 THEN "l135" ELSE "l147"]
    /\ UNCHANGED <<config, counters, inventory, server_is_running, lock, req, result,
                   bg_pc, main_pc, files, now, history>>

\* lines 135-139: the locked pop after the unlocked test; deque.pop() of an
\* empty deque raises IndexError, which leaves the `with` and ends the call
request_block_pop(h) ==
    /\ pc[h] = "l135"
    /\ lock = 0
    /\ IF Len(block_queue) > 0
       THEN LET d == Dispatch(block_queue, in_progress, time_stamps, now)
            IN  /\ block_queue' = d[1]
                /\ in_progress' = d[2]
                /\ time_stamps' = d[3]
                /\ result' = [result EXCEPT ![h] = RetBlock(d[4])]
                /\ dispatch_count' = Dispatched(dispatch_count, d[4])
       ELSE /\ result' = [result EXCEPT ![h] = IndexError]
            /\ UNCHANGED <<block_queue, in_progress, time_stamps, dispatch_count>>
    /\ pc' = [pc EXCEPT ![h] = "idle"]
    /\ UNCHANGED <<config, refills, processed_list, failed_blocks, try_counter,
                   server_is_running, lock, req, bg_pc, main_pc, files, now,
                   history>>

\* lines 147-149: `while self.in_progress: sleep`, read without the lock
request_block_wait(h) ==
    /\ pc[h] = "l147"
    /\ in_progress = <<>>
    /\ pc' = [pc EXCEPT ![h] = "l151"]
    /\ UNCHANGED <<config, counters, inventory, server_is_running, lock, req, result,
                   bg_pc, main_pc, files, now, history>>

\* lines 151-166: the locked section after the drain wait
request_block_locked(h) ==
    /\ pc[h] = "l151"
    /\ lock = 0
    /\ IF Len(block_queue) > 0
       THEN LET d == Dispatch(block_queue, in_progress, time_stamps, now)
            IN  /\ block_queue' = d[1]
                /\ in_progress' = d[2]
                /\ time_stamps' = d[3]
                /\ result' = [result EXCEPT ![h] = RetBlock(d[4])]
                /\ dispatch_count' = Dispatched(dispatch_count, d[4])
                /\ pc' = [pc EXCEPT ![h] = "idle"]
                /\ UNCHANGED <<failed_blocks, try_counter, lock, refills>>
       ELSE IF CanRetry(try_counter, num_retries, failed_blocks)
       THEN LET r == repopulate_queue(block_queue, in_progress, time_stamps,
                                      failed_blocks, now)
            IN  /\ block_queue' = r[1]
                /\ in_progress' = r[2]
                /\ time_stamps' = r[3]
                /\ result' = [result EXCEPT ![h] = RetBlock(r[4])]
                /\ failed_blocks' = r[5]
                /\ try_counter' = NextTry(try_counter)
                /\ dispatch_count' = Dispatched(dispatch_count, r[4])
                /\ refills' = refills + 1
                /\ pc' = [pc EXCEPT ![h] = "idle"]
                /\ UNCHANGED lock
       ELSE /\ result' = [result EXCEPT ![h] = RetNone]
            /\ IF server_is_running
               THEN /\ pc' = [pc EXCEPT ![h] = "l167"]
                    /\ lock' = h
               ELSE /\ pc' = [pc EXCEPT ![h] = "idle"]
                    /\ UNCHANGED lock
            /\ UNCHANGED <<block_queue, in_progress, time_stamps,
                           failed_blocks, try_counter, counters>>
    /\ UNCHANGED <<config, processed_list, server_is_running, req, bg_pc,
                   main_pc, files, now, history>>

\* variant: running is set to false before the status is serialized
serialize_status_FlagFirst(h) ==
    /\ pc[h] = "l167"
    /\ server_is_running' = FALSE
    /\ out_failed' = Dump(failed_blocks, out_failed)
    /\ out_processed' = Dump(processed_list, out_processed)
    /\ out_inprogress' = Dump(in_progress, out_inprogress)
    /\ written' = Opened(in_progress, "inprogress",
                     Opened(processed_list, "processed",
                       Opened(failed_blocks, "failed", written)))
    /\ shutdown_log' = shutdown_log \o <<"flag", "serialize">>
    /\ pc' = [pc EXCEPT ![h] = "l168"]
    /\ UNCHANGED <<config, counters, inventory, lock, req, result,
                   bg_pc, main_pc, now, swept, confirmed, pending_at_interrupt>>

\* line 167: self.serialize_status(), the lock still held
serialize_status(h) ==
    /\ pc[h] = "l167"
    /\ out_failed' = Dump(failed_blocks, out_failed)
    /\ out_processed' = Dump(processed_list, out_processed)
    /\ out_inprogress' = Dump(in_progress, out_inprogress)
    /\ written' = Opened(in_progress, "inprogress",
                     Opened(processed_list, "processed",
                       Opened(failed_blocks, "failed", written)))
    /\ shutdown_log' = Append(shutdown_log, "serialize")
    /\ pc' = [pc EXCEPT ![h] = "l168"]
    /\ UNCHANGED <<config, counters, inventory, server_is_running, lock, req, result,
                   bg_pc, main_pc, now, swept, confirmed, pending_at_interrupt>>

\* base.py lines 88-89: server.shutdown(); server.server_close()
\* serve_forever returns in the main thread, start_service returns
shutdown_server_stop(h) ==
    /\ pc[h] = "l168"
    /\ main_pc' = IF main_pc = "serving" THEN "returned" ELSE main_pc
    /\ pc' = [pc EXCEPT ![h] = "l90"]
    /\ shutdown_log' = Append(shutdown_log, "stop")
    /\ UNCHANGED <<config, counters, inventory, server_is_running, lock, req, result,
                   bg_pc, files, now, swept, confirmed, pending_at_interrupt>>

\* variant: shutdown_server returns without clearing server_is_running
shutdown_server_flag_Keep(h) ==
    /\ pc[h] = "l90"
    /\ lock' = 0
    /\ pc' = [pc EXCEPT ![h] = "idle"]
    /\ shutdown_log' = Append(shutdown_log, "flag")
    /\ UNCHANGED <<config, counters, inventory, server_is_running, req, result, bg_pc,
                   main_pc, files, now, swept, confirmed, pending_at_interrupt>>

\* base.py line 90: self.server_is_running = False; then the `with` of
\* request_block ends and None is returned
shutdown_server_flag(h) ==
    /\ pc[h] = "l90"
    /\ server_is_running' = FALSE
    /\ lock' = 0
    /\ pc' = [pc EXCEPT ![h] = "idle"]
    /\ shutdown_log' = Append(shutdown_log, "flag")
    /\ UNCHANGED <<config, counters, inventory, req, result, bg_pc, main_pc, files, now,
                   swept, confirmed, pending_at_interrupt>>

\* variant: `success = True` is reached on the ValueError path as well
confirm_block_AlwaysTrue(h) ==
    /\ pc[h] = "l179"
    /\ lock = 0
    /\ IF Found(in_progress, req[h][1])
       THEN LET c == ConfirmFound(in_progress, time_stamps, processed_list, req[h][1])
            IN  /\ in_progress' = c[1]
                /\ time_stamps' = c[2]
                /\ processed_list' = c[3]
                /\ confirmed' = confirmed \cup {req[h][1]}
       ELSE UNCHANGED <<in_progress, time_stamps, processed_list, confirmed>>
    /\ result' = [result EXCEPT ![h] = Accepted]
    /\ pc' = [pc EXCEPT ![h] = "idle"]
    /\ UNCHANGED <<config, counters, block_queue, failed_blocks, try_counter,
                   server_is_running, lock, req, bg_pc, main_pc, files, now,
                   swept, pending_at_interrupt, shutdown_log>>

\* lines 178-189: confirm_block
confirm_block(h) ==
    /\ pc[h] = "l179"
    /\ lock = 0
    /\ IF Found(in_progress, req[h][1])
       THEN LET c == ConfirmFound(in_progress, time_stamps, processed_list, req[h][1])
            IN  /\ in_progress' = c[1]
                /\ time_stamps' = c[2]
                /\ processed_list' = c[3]
                /\ result' = [result EXCEPT ![h] = Accepted]
                /\ confirmed' = confirmed \cup {req[h][1]}
       ELSE /\ result' = [result EXCEPT ![h] = Rejected]
            /\ UNCHANGED <<in_progress, time_stamps, processed_list, confirmed>>
    /\ pc' = [pc EXCEPT ![h] = "idle"]
    /\ UNCHANGED <<config, counters, block_queue, failed_blocks, try_counter,
                   server_is_running, lock, req, bg_pc, main_pc, files, now,
                   swept, pending_at_interrupt, shutdown_log>>

\* ---------------------------------------------------------------- sweeper
\* line 113: `while self.server_is_running`, read without the lock
check_progress_list_test ==
    /\ bg_pc = "l113"
    /\ bg_pc' = IF server_is_running THEN "l114" ELSE "exit"
    /\ UNCHANGED <<config, counters, inventory, server_is_running, lock, pc, req, result,
                   main_pc, files, now, history>>

\* lines 114-127: sleep, then the locked scan
check_progress_list_sweep ==
    /\ bg_pc = "l114"
    /\ lock = 0
    /\ LET s == SweepFrom(Len(time_stamps), in_progress, time_stamps,
                          failed_blocks, now)
       IN  /\ in_progress' = s[1]
           /\ time_stamps' = s[2]
           /\ failed_blocks' = s[3]
    /\ swept' = swept \cup ExpiredBlocks(in_progress, time_stamps, now)
    /\ bg_pc' = "l113"
    /\ UNCHANGED <<config, counters, block_queue, processed_list, try_counter,
                   server_is_running, lock, pc, req, result, main_pc, files,
                   now, confirmed, pending_at_interrupt, shutdown_log>>

\* ---------------------------------------------------------------- main thread
\* base.py line 28: KeyboardInterrupt unwinds serve_forever
interrupt ==
    /\ main_pc = "serving"
    /\ main_pc' = "l210"
    /\ pending_at_interrupt' = Range(block_queue)
    /\ UNCHANGED <<config, counters, inventory, server_is_running, lock, pc, req, result,
                   bg_pc, files, now, swept, confirmed, shutdown_log>>

\* serialize_status(True) in the main thread, without the lock: lines 210-215
interrupt_dump_failed ==
    /\ main_pc = "l210"
    /\ out_failed' = Dump(failed_blocks, out_failed)
    /\ written' = Opened(failed_blocks, "failed", written)
    /\ main_pc' = "l217"
    /\ UNCHANGED <<config, counters, inventory, server_is_running, lock, pc, req, result,
                   bg_pc, out_processed, out_inprogress, now, history>>

\* lines 217-222
interrupt_dump_processed ==
    /\ main_pc = "l217"
    /\ out_processed' = Dump(processed_list, out_processed)
    /\ written' = Opened(processed_list, "processed", written)
    /\ main_pc' = "l224"
    /\ UNCHANGED <<config, counters, inventory, server_is_running, lock, pc, req, result,
                   bg_pc, out_failed, out_inprogress, now, history>>

\* lines 224-229
interrupt_dump_inprogress ==
    /\ main_pc = "l224"
    /\ out_inprogress' = Dump(in_progress, out_inprogress)
    /\ written' = Opened(in_progress, "inprogress", written)
    /\ main_pc' = "l30"
    /\ UNCHANGED <<config, counters, inventory, server_is_running, lock, pc, req, result,
                   bg_pc, out_failed, out_processed, now, history>>

\* base.py line 30: service.shutdown_server(), then the interrupt is re-raised
interrupt_shutdown_server ==
    /\ main_pc = "l30"
    /\ server_is_running' = FALSE
    /\ main_pc' = "raised"
    /\ UNCHANGED <<config, counters, inventory, lock, pc, req, result, bg_pc, files, now,
                   history>>

\* ---------------------------------------------------------------- time
tick ==
    /\ now < MaxTime
    /\ now' = now + 1
    /\ UNCHANGED <<config, counters, inventory, server_is_running, lock, pc, req, result,
                   bg_pc, main_pc, files, history>>

Next ==
    \/ \E h \in Handlers : handle_request_block(h)
    \/ \E h \in Handlers : \E b \in Blocks : handle_confirm_block(h, b)
    \/ \E h \in Handlers : request_block_test(h)
    \/ \E h \in Handlers : request_block_pop(h)
    \/ \E h \in Handlers : request_block_wait(h)
    \/ \E h \in Handlers : request_block_locked(h)
    \/ \E h \in Handlers : serialize_status(h)
    \/ \E h \in Handlers : shutdown_server_stop(h)
    \/ \E h \in Handlers : shutdown_server_flag(h)
    \/ \E h \in Handlers : confirm_block(h)
    \/ check_progress_list_test
    \/ check_progress_list_sweep
    \/ interrupt
    \/ interrupt_dump_failed
    \/ interrupt_dump_processed
    \/ interrupt_dump_inprogress
    \/ interrupt_shutdown_server
    \/ tick

Spec == Init /\ [][Next]_vars

\* ---------------------------------------------------------------- fairness
\* Time keeps advancing: once the clock has reached MaxTime a further tick
\* is represented by moving every time stamp one tick into the past (ages
\* are cut off at MaxTime, which is above TimeLimit, so no expiry test
\* changes).
tick_saturated ==
    /\ now = MaxTime
    /\ \E i \in DOMAIN time_stamps : time_stamps[i] > 0
    /\ time_stamps' = [i \in DOMAIN time_stamps |->
                          IF time_stamps[i] > 0 THEN time_stamps[i] - 1 ELSE 0]
    /\ UNCHANGED <<config, counters, block_queue, in_progress, processed_list,
                   failed_blocks, try_counter, server_is_running, lock, pc,
                   req, result, bg_pc, main_pc, files, now, history>>

NextLive == Next \/ tick_saturated

\* Every thread that can take a step eventually takes it, and time advances.
\* The arrival of requests and the interrupt are not forced.
Fairness ==
    /\ WF_vars(tick)
    /\ WF_vars(tick_saturated)
    /\ WF_vars(check_progress_list_test)
    /\ WF_vars(check_progress_list_sweep)
    /\ WF_vars(interrupt_dump_failed)
    /\ WF_vars(interrupt_dump_processed)
    /\ WF_vars(interrupt_dump_inprogress)
    /\ WF_vars(interrupt_shutdown_server)
    /\ \A h \in Handlers :
          /\ WF_vars(request_block_test(h))
          /\ WF_vars(request_block_pop(h))
          /\ WF_vars(request_block_wait(h))
          /\ WF_vars(request_block_locked(h))
          /\ WF_vars(serialize_status(h))
          /\ WF_vars(shutdown_server_stop(h))
          /\ WF_vars(shutdown_server_flag(h))
          /\ WF_vars(confirm_block(h))

LiveSpec == Init /\ [][NextLive]_vars /\ Fairness

\* ---------------------------------------------------------------- wire
\* The request handler on real request lines.  A line is a sequence of
\* characters; the specification SpecWire draws one line per behaviour and
\* lets every handler read it, from a state in which the first blocks of the
\* file may already have been dispatched.
MaxLine == 7

\* two digits, a letter and the blank
Chars == {"1", "2", "a", " "}

Lines == UNION {[1..n -> Chars] : n \in 0..MaxLine}

DigitChars == {ToString(d) : d \in 0..9}

DigitVal(c) == CHOOSE d \in 0..9 : ToString(d) = c

\* the offset triple block b stands for
Offsets(b) == <<b, b, b>>

\* the block a confirmed triple denotes; 0 is equal to no block in any list
BlockOf(triple) ==
    IF \E b \in Blocks : Offsets(b) = triple
    THEN CHOOSE b \in Blocks : Offsets(b) = triple
    ELSE 0

\* bytes.strip()
RECURSIVE strip(_)
strip(l) ==
    IF l = <<>> THEN l
    ELSE IF Head(l) = " " THEN strip(Tail(l))
    ELSE IF Last(l) = " " THEN strip(Front(l))
    ELSE l

\* bytes.split(): the maximal runs of non-blank characters; tok is the run
\* being read
RECURSIVE SplitFrom(_, _)
SplitFrom(l, tok) ==
    IF l = <<>> THEN (IF tok = <<>> THEN <<>> ELSE <<tok>>)
    ELSE IF Head(l) = " "
         THEN (IF tok = <<>> THEN <<>> ELSE <<tok>>) \o SplitFrom(Tail(l), <<>>)
         ELSE SplitFrom(Tail(l), Append(tok, Head(l)))

split(l) == SplitFrom(l, <<>>)

\* bytes.isdigit()
isdigit(tok) == tok # <<>> /\ \A i \in DOMAIN tok : tok[i] \in DigitChars

\* int(token) of a digit string
RECURSIVE int(_)
int(tok) == IF tok = <<>> THEN 0 ELSE 10 * int(Front(tok)) + DigitVal(Last(tok))

ReqNone == [kind |-> "None", val |-> <<>>]
ReqList(ints) == [kind |-> "list", val |-> ints]
ReqError == [kind |-> "RuntimeError", val |-> <<>>]

\* the exception that ends handle() before process_request is called
RuntimeError == [kind |-> "RuntimeError", val |-> 0]

\* variant: every length other than 1 is taken as a confirmation
format_request_NoElse(l) ==
    LET request == split(l)
    IN  IF Len(request) = 1 THEN ReqNone
        ELSE IF ~(\A i \in DOMAIN request : isdigit(request[i])) THEN ReqError
        ELSE ReqList([i \in DOMAIN request |-> int(request[i])])

\* BlockRequestHandler.format_request
format_request(l) ==
    LET request == split(l)
    IN  IF Len(request) = 1 THEN ReqNone
        ELSE IF Len(request) = 3
        THEN IF ~(\A i \in DOMAIN request : isdigit(request[i])) THEN ReqError
             ELSE ReqList([i \in DOMAIN request |-> int(request[i])])
        ELSE ReqError

\* BaseRequestHandler.handle: read the line, format it, call process_request
handle(h) ==
    /\ main_pc = "serving"
    /\ pc[h] = "idle"
    /\ LET request == format_request(strip(line))
       IN  IF request.kind = "None"
           THEN /\ pc' = [pc EXCEPT ![h] = "l134"]
                /\ req' = [req EXCEPT ![h] = <<>>]
                /\ result' = [result EXCEPT ![h] = Pending]
           ELSE IF request.kind = "list"
           THEN /\ pc' = [pc EXCEPT ![h] = "l179"]
                /\ req' = [req EXCEPT ![h] = <<BlockOf(request.val)>>]
                /\ result' = [result EXCEPT ![h] = Pending]
           ELSE /\ result' = [result EXCEPT ![h] = RuntimeError]
                /\ UNCHANGED <<pc, req>>
    /\ UNCHANGED <<config, counters, inventory, server_is_running, lock, bg_pc, main_pc,
                   files, now, history>>

\* the service after `dispatched` request_block calls at time 0, with the
\* line `l` about to arrive
InitWire ==
    /\ block_file \in BlockFiles
    /\ num_retries = MaxRetries
    /\ line \in Lines
    /\ \E dispatched \in 0..Len(block_file) :
          /\ in_progress = SubSeq(block_file, 1, dispatched)
          /\ time_stamps = [i \in 1..dispatched |-> 0]
          /\ block_queue = SubSeq(LoadQueue(block_file), 1,
                                  Len(block_file) - dispatched)
    /\ processed_list = <<>>
    /\ failed_blocks = <<>>
    /\ try_counter = 0
    /\ server_is_running = TRUE
    /\ lock = 0
    /\ pc = [h \in Handlers |-> "idle"]
    /\ req = [h \in Handlers |-> <<>>]
    /\ result = [h \in Handlers |-> Pending]
    /\ bg_pc = "l113"
    /\ main_pc = "serving"
    /\ out_failed = <<>>
    /\ out_processed = <<>>
    /\ out_inprogress = <<>>
    /\ written = {}
    /\ now = 0
    /\ swept = {}
    /\ confirmed = {}
    /\ pending_at_interrupt = {}
    /\ shutdown_log = <<>>
    /\ dispatch_count = [b \in Blocks |-> Count(in_progress, b)]
    /\ refills = 0

NextWire ==
    \/ \E h \in Handlers : handle(h)
    \/ \E h \in Handlers : request_block_test(h)
    \/ \E h \in Handlers : request_block_pop(h)
    \/ \E h \in Handlers : request_block_wait(h)
    \/ \E h \in Handlers : request_block_locked(h)
    \/ \E h \in Handlers : serialize_status(h)
    \/ \E h \in Handlers : shutdown_server_stop(h)
    \/ \E h \in Handlers : shutdown_server_flag(h)
    \/ \E h \in Handlers : confirm_block(h)

SpecWire == InitWire /\ [][NextWire]_vars

\* ---------------------------------------------------------------- typing
TypeOK ==
    /\ block_file \in BlockFiles
    /\ num_retries \in 0..MaxRetries
    /\ Len(in_progress) = Len(time_stamps)
    /\ \A i \in DOMAIN time_stamps : time_stamps[i] \in 0..now
    /\ lock \in {0} \cup Handlers
    /\ now \in 0..MaxTime


\* ---------------------------------------------------------------- properties
Loaded == Range(block_file)

\* how often block b occurs in the four collections together
Occurrences(b) ==
    Count(block_queue, b) + Count(in_progress, b) + Count(processed_list, b)
        + Count(failed_blocks, b)

NoDuplicates(s) == \A i, j \in DOMAIN s : s[i] = s[j] => i = j

\* handler h is inside the graceful shutdown sequence (lines 165-168)
InGracefulShutdown(h) == pc[h] \in {"l167", "l168", "l90"}

\* the step in which handler h runs the locked body of confirm_block
ConfirmStep(h) == pc[h] = "l179" /\ pc'[h] = "idle"

\* the step in which handler h runs a locked body of request_block
RequestStep(h) == pc[h] \in {"l135", "l151"} /\ pc'[h] # pc[h]

\* the step in which failed is moved back to pending
RefillStep ==
    \E h \in Handlers :
        /\ pc[h] = "l151" /\ pc'[h] = "idle"
        /\ block_queue = <<>> /\ failed_blocks # <<>>
        /\ Range(block_queue') \cup {result'[h].val} = Range(failed_blocks)

\* C1: a graceful shutdown is initiated only when pending and in_flight are
\* empty and failed is empty or the retries are used up.
C1_ShutdownOnlyWhenDrained ==
    \A h \in Handlers :
        InGracefulShutdown(h) =>
            /\ block_queue = <<>>
            /\ in_progress = <<>>
            /\ (failed_blocks = <<>> \/ try_counter = num_retries)

\* C2: every concurrent request_block call returns a block or None (none
\* fails), and every block that enters in_flight is returned to exactly one
\* caller.
C2_ConcurrentRequests ==
    /\ [](\A h \in Handlers : result[h] # IndexError)
    /\ [][Len(in_progress') > Len(in_progress) =>
            \E h \in Handlers :
                /\ RequestStep(h)
                /\ result'[h] = RetBlock(Last(in_progress'))
                /\ \A g \in Handlers \ {h} : result'[g] = result[g] /\ pc'[g] = pc[g]]_vars

\* C3: before shutdown every loaded block is in exactly one of pending,
\* in_flight, processed and failed, and no other block is in any of them.
C3_ExactlyOnePlace ==
    server_is_running =>
        \A b \in Blocks : Occurrences(b) = (IF b \in Loaded THEN 1 ELSE 0)

\* a retry round is under way next to a processed block
C3_Witness ==
    /\ server_is_running
    /\ try_counter > 0
    /\ processed_list # <<>>
    /\ in_progress # <<>>

\* C4: pending, in_flight, processed and failed are pairwise disjoint and
\* none of them holds a block twice.
C4_PairwiseDisjoint ==
    /\ Range(block_queue) \cap Range(in_progress) = {}
    /\ Range(block_queue) \cap Range(processed_list) = {}
    /\ Range(block_queue) \cap Range(failed_blocks) = {}
    /\ Range(in_progress) \cap Range(processed_list) = {}
    /\ Range(in_progress) \cap Range(failed_blocks) = {}
    /\ Range(processed_list) \cap Range(failed_blocks) = {}
    /\ NoDuplicates(block_queue)
    /\ NoDuplicates(in_progress)
    /\ NoDuplicates(processed_list)
    /\ NoDuplicates(failed_blocks)

\* a refill of two failed blocks: one re-dispatched, one pending again
C4_Witness ==
    /\ try_counter > 0
    /\ block_queue # <<>>
    /\ in_progress # <<>>
    /\ failed_blocks = <<>>


\* C5 (as claimed): a confirm of b that runs after the sweeper has moved b to
\* failed is rejected (wire response 1) and b is in failed afterwards, also
\* when a retry round has re-dispatched b in between.
C5_LateConfirmRejected ==
    [][\A h \in Handlers :
          (ConfirmStep(h) /\ req[h][1] \in swept) =>
              /\ result'[h] = Rejected
              /\ format_response(result'[h]) = "1"
              /\ req[h][1] \in Range(failed_blocks')]_vars

\* C5 (amended): a confirm of b that runs while b, moved there by the
\* sweeper, is still in failed is rejected (wire response 1), and failed is
\* left as it was.
C5_ConfirmWhileFailedRejected ==
    [][\A h \in Handlers :
          (ConfirmStep(h) /\ req[h][1] \in swept
                          /\ req[h][1] \in Range(failed_blocks)) =>
              /\ result'[h] = Rejected
              /\ format_response(result'[h]) = "1"
              /\ failed_blocks' = failed_blocks]_vars

\* a late confirm has been rejected and its block is in failed
C5_Witness ==
    \E h \in Handlers :
        /\ pc[h] = "idle"
        /\ req[h] # <<>>
        /\ result[h] = Rejected
        /\ req[h][1] \in swept
        /\ req[h][1] \in Range(failed_blocks)

\* C6 (as claimed): of two completed confirm_block(b) calls exactly one was
\* accepted.
C6_ExactlyOneOfTwo ==
    \A h1, h2 \in Handlers :
        (/\ h1 # h2
         /\ pc[h1] = "idle" /\ pc[h2] = "idle"
         /\ req[h1] # <<>> /\ req[h1] = req[h2]
         /\ result[h1].kind = "bool" /\ result[h2].kind = "bool")
        => ((result[h1] = Accepted) # (result[h2] = Accepted))

\* C6 (amended): at most one confirm of a block is ever accepted: a confirm
\* of a block that already has an accepted confirm is rejected.
C6_AtMostOneAccepted ==
    [][\A h \in Handlers :
          ConfirmStep(h) =>
              /\ result'[h].kind = "bool"
              /\ (req[h][1] \in confirmed => result'[h] = Rejected)]_vars

\* two confirms of one block: one accepted, one rejected
C6_Witness ==
    \E h1, h2 \in Handlers :
        /\ h1 # h2
        /\ pc[h1] = "idle" /\ pc[h2] = "idle"
        /\ req[h1] # <<>> /\ req[h1] = req[h2]
        /\ result[h1] = Accepted /\ result[h2] = Rejected
        /\ req[h1][1] \in confirmed

\* C7: confirm_block(b) is accepted iff b is in in_flight; then exactly b and
\* its time stamp leave in_flight and b is appended to processed; on
\* rejection the inventory is unchanged; processed grows by no other step.
C7_ConfirmFrame ==
    [][/\ \A h \in Handlers :
            ConfirmStep(h) =>
                LET b == req[h][1] IN
                /\ (result'[h] = Accepted) <=> (b \in Range(in_progress))
                /\ (result'[h] = Rejected) <=> (b \notin Range(in_progress))
                /\ b \in Range(in_progress) =>
                      \E i \in DOMAIN in_progress :
                          /\ in_progress[i] = b
                          /\ in_progress' = RemoveAt(in_progress, i)
                          /\ time_stamps' = RemoveAt(time_stamps, i)
                          /\ processed_list' = Append(processed_list, b)
                          /\ UNCHANGED <<block_queue, failed_blocks, try_counter>>
                /\ b \notin Range(in_progress) => UNCHANGED inventory
       /\ processed_list' # processed_list =>
            \E h \in Handlers :
                /\ ConfirmStep(h)
                /\ req[h][1] \in Range(in_progress)
                /\ processed_list' = Append(processed_list, req[h][1])]_vars

\* a confirm was accepted while another block stays in flight
C7_Witness ==
    \E h \in Handlers :
        /\ pc[h] = "idle"
        /\ req[h] # <<>>
        /\ result[h] = Accepted
        /\ req[h][1] \in Range(processed_list)
        /\ in_progress # <<>>

\* C8: 0 <= try_counter <= num_retries, and try_counter grows by exactly one
\* in each retry refill and changes in no other step.
C8_TryCounter ==
    /\ [](try_counter \in 0..num_retries)
    /\ [][/\ RefillStep => try_counter' = try_counter + 1
          /\ try_counter' # try_counter => RefillStep]_vars

\* a refill has happened while another caller had left the drain wait
C8_Witness ==
    /\ try_counter > 0
    /\ try_counter = num_retries
    /\ \E h \in Handlers : pc[h] = "l151"

\* C9: after a graceful shutdown of a run with num_retries >= number of
\* loaded blocks, failed is empty iff every loaded block is in processed.
C9_FailedEmptyIffAllProcessed ==
    (main_pc = "returned" /\ num_retries >= Len(block_file)) =>
        ((failed_blocks = <<>>) <=> (Loaded \subseteq Range(processed_list)))

\* C10: the three files written on interrupt shutdown are pairwise disjoint
\* and, together with the pending blocks of that time, make up the loaded
\* input.
C10_ConsistentSnapshot ==
    main_pc \in {"l30", "raised"} =>
        /\ Range(out_failed) \cap Range(out_processed) = {}
        /\ Range(out_failed) \cap Range(out_inprogress) = {}
        /\ Range(out_processed) \cap Range(out_inprogress) = {}
        /\ Range(out_failed) \cup Range(out_processed) \cup Range(out_inprogress)
              \cup pending_at_interrupt = Loaded


\* C11: with an empty input list a request_block call never waits (in_flight
\* is always empty), returns None (wire response stop), starts the graceful
\* shutdown if the service is still running, and no status file is written.
C11_EmptyInput ==
    /\ [](block_file = <<>> =>
            /\ in_progress = <<>>
            /\ written = {}
            /\ out_failed = <<>> /\ out_processed = <<>> /\ out_inprogress = <<>>
            /\ \A h \in Handlers :
                  /\ pc[h] # "l135"
                  /\ result[h] \in {Pending, RetNone, Rejected})
    /\ [][block_file = <<>> =>
            \A h \in Handlers :
                (pc[h] = "l151" /\ pc'[h] # "l151") =>
                    /\ result'[h] = RetNone
                    /\ format_response(result'[h]) = "stop"
                    /\ server_is_running => pc'[h] = "l167"]_vars

\* the graceful shutdown has run on an empty input: stop was returned and
\* there are no files
C11_Witness ==
    /\ block_file = <<>>
    /\ shutdown_log = <<"serialize", "stop", "flag">>
    /\ written = {}
    /\ \E h \in Handlers : pc[h] = "idle" /\ result[h] = RetNone


\* C12: a refill happens only when pending is empty; it moves the whole
\* failed sequence to pending and empties failed; the refilled blocks leave
\* pending in the order in which they were appended to failed, because the
\* refill dispatches failed[1], leaves failed[2..] with failed[2] at the right
\* end, and every later dispatch pops the right end.
C12_RetryOrder ==
    [][/\ RefillStep =>
            /\ block_queue = <<>>
            /\ failed_blocks' = <<>>
            /\ Reverse(block_queue') = Tail(failed_blocks)
            /\ in_progress' = Append(in_progress, Head(failed_blocks))
            /\ \E h \in Handlers :
                  RequestStep(h) /\ result'[h] = RetBlock(Head(failed_blocks))
       /\ (block_queue' # block_queue /\ ~RefillStep) =>
            /\ block_queue # <<>>
            /\ block_queue' = Front(block_queue)
            /\ in_progress' = Append(in_progress, Last(block_queue))
            /\ \E h \in Handlers :
                  RequestStep(h) /\ result'[h] = RetBlock(Last(block_queue))]_vars

\* a retry round of two blocks: both have been re-dispatched
C12_Witness ==
    /\ try_counter > 0
    /\ Len(in_progress) = 2
    /\ block_queue = <<>>
    /\ failed_blocks = <<>>
    /\ Cardinality(swept) = 2

\* C13: before the first refill the i-th dispatch returns the i-th entry of
\* the input file.
C13_FileOrder ==
    /\ [](try_counter = 0 =>
            LET n == Len(block_file)
                k == n - Len(block_queue)
            IN  /\ k \in 0..n
                /\ Reverse(block_queue) = SubSeq(block_file, k + 1, n))
    /\ [][\A h \in Handlers :
            (RequestStep(h) /\ try_counter' = 0 /\ result'[h].kind = "block") =>
                LET i == Len(block_file) - Len(block_queue) + 1
                IN  /\ Len(block_queue') = Len(block_queue) - 1
                    /\ result'[h] = RetBlock(block_file[i])]_vars

\* both entries of a two-block file have been dispatched, no refill yet
C13_Witness ==
    /\ try_counter = 0
    /\ Len(block_file) = 2
    /\ block_queue = <<>>
    /\ \E h1, h2 \in Handlers :
          /\ result[h1] = RetBlock(block_file[1])
          /\ result[h2] = RetBlock(block_file[2])


\* the number of whitespace-delimited tokens of a line: the positions at
\* which a token starts
NumTokens(l) ==
    Cardinality({i \in DOMAIN l : l[i] # " " /\ (i = 1 \/ l[i - 1] = " ")})

\* every token of the line is made of decimal digits
OnlyDigitTokens(l) == \A i \in DOMAIN l : l[i] = " " \/ l[i] \in DigitChars

IsRequestLine(l) == NumTokens(l) = 1

IsConfirmLine(l) == NumTokens(l) = 3 /\ OnlyDigitTokens(l)

\* the step in which handler h reads and formats the line
HandleStep(h) ==
    pc[h] = "idle" /\ (pc'[h] # "idle" \/ result'[h] # result[h])

\* C14: a line is a request-block iff it has exactly one token and a
\* confirm-block iff it has exactly three tokens that are all digits; any
\* other line ends the handler with an error before process_request runs,
\* and no step on such a line changes the inventory.
C14_WireRequests ==
    [][/\ \A h \in Handlers :
            HandleStep(h) =>
                /\ (pc'[h] = "l134") <=> IsRequestLine(line)
                /\ (pc'[h] = "l179") <=> IsConfirmLine(line)
                /\ (~IsRequestLine(line) /\ ~IsConfirmLine(line)) =>
                      /\ result'[h] = RuntimeError
                      /\ pc'[h] = "idle"
                /\ pc'[h] = "l179" =>
                      \A b \in Blocks :
                          (req'[h] = <<b>>) <=> (split(line) = [i \in 1..3 |-> <<ToString(b)>>])
                /\ UNCHANGED inventory
       /\ (~IsRequestLine(line) /\ ~IsConfirmLine(line)) =>
            /\ UNCHANGED inventory
            /\ \A h \in Handlers : pc'[h] = "idle"]_vars

\* a three-token line with a non-digit token was refused while a block is
\* in flight
C14_Witness ==
    /\ NumTokens(line) = 3
    /\ ~OnlyDigitTokens(line)
    /\ in_progress # <<>>
    /\ \E h \in Handlers : result[h] = RuntimeError


InRequestBlock(h) ==
    pc[h] \in {"l134", "l135", "l147", "l151", "l167", "l168", "l90"}

\* C16: under fair scheduling and advancing time every request_block call
\* eventually returns.
C16_RequestReturns ==
    \A h \in Handlers : InRequestBlock(h) ~> (pc[h] = "idle")


\* the step in which the sweeper runs its locked scan
SweepStep == bg_pc = "l114" /\ bg_pc' = "l113"

\* C17: once running is false the sweeper moves no block from in_flight to
\* failed.
C17_NoSweepAfterShutdown ==
    [][(~server_is_running /\ SweepStep) =>
          (in_progress' = in_progress /\ failed_blocks' = failed_blocks)]_vars

IsPrefix(a, b) == Len(a) <= Len(b) /\ a = SubSeq(b, 1, Len(a))

C19_SweepFrame ==
    [][SweepStep =>
          LET pairs == [i \in DOMAIN in_progress |-> <<in_progress[i], time_stamps[i]>>]
              Over(p) == now - p[2] > TimeLimit
              Under(p) == ~(now - p[2] > TimeLimit)
              kept == SelectSeq(pairs, Under)
              moved == SelectSeq(pairs, Over)
          IN  /\ Len(in_progress) = Len(time_stamps)
              /\ in_progress' = [i \in DOMAIN kept |-> kept[i][1]]
              /\ time_stamps' = [i \in DOMAIN kept |-> kept[i][2]]
              /\ Len(in_progress') = Len(time_stamps')
              /\ failed_blocks' =
                    failed_blocks \o Reverse([i \in DOMAIN moved |-> moved[i][1]])
              /\ UNCHANGED <<block_queue, processed_list, try_counter,
                             server_is_running, lock, pc, result, main_pc, files>>]_vars

\* the sweeper has moved one block and left one whose age equals time_limit
C19_Witness ==
    /\ bg_pc = "l113"
    /\ failed_blocks # <<>>
    /\ swept # {}
    /\ \E i \in DOMAIN time_stamps : now - time_stamps[i] = TimeLimit

\* C20: the exhaustion shutdown sequence runs at most once; a caller that
\* reaches the exhausted state later returns None without serializing or
\* shutting down again.
C20_ShutdownOnce ==
    /\ [](/\ Len(shutdown_log) <= 3
          /\ NoDuplicates(shutdown_log)
          /\ Cardinality({h \in Handlers : InGracefulShutdown(h)}) <= 1)
    /\ [][\A h \in Handlers :
            (/\ pc[h] = "l151" /\ pc'[h] # "l151"
             /\ shutdown_log # <<>>
             /\ result'[h] = RetNone) =>
                /\ pc'[h] = "idle"
                /\ UNCHANGED <<files, shutdown_log, main_pc, server_is_running, lock>>]_vars

\* one caller has shut the service down, another has returned None after it
C20_Witness ==
    /\ shutdown_log = <<"serialize", "stop", "flag">>
    /\ \E h1, h2 \in Handlers :
          /\ h1 # h2
          /\ pc[h1] = "idle" /\ pc[h2] = "idle"
          /\ result[h1] = RetNone /\ result[h2] = RetNone


\* C21: every loaded block is moved from pending to in_flight at most
\* num_retries + 1 times and the retry refills are at most num_retries; the
\* two counts change exactly with a dispatch of the block and with a refill.
C21_DispatchBound ==
    /\ [](/\ \A b \in Blocks :
                /\ dispatch_count[b] <= num_retries + 1
                /\ b \notin Loaded => dispatch_count[b] = 0
          /\ refills <= num_retries)
    /\ [][/\ \A b \in Blocks :
                /\ Count(in_progress', b) > Count(in_progress, b)
                      <=> dispatch_count'[b] = dispatch_count[b] + 1
                /\ dispatch_count'[b] \in {dispatch_count[b], dispatch_count[b] + 1}
                /\ dispatch_count'[b] # dispatch_count[b] =>
                      Count(block_queue, b) + Count(failed_blocks, b) >
                         Count(block_queue', b) + Count(failed_blocks', b)
          /\ refills' = refills + 1 <=> RefillStep
          /\ refills' \in {refills, refills + 1}]_vars

\* a block has been dispatched in the first round and in every retry round
C21_Witness ==
    /\ num_retries > 0
    /\ refills = num_retries
    /\ \E b \in Loaded : dispatch_count[b] = num_retries + 1

====
